---- MODULE Spec2Model ----
(***************************************************************************)
(* Model of package nett's address filters (filter.go).                    *)
(*                                                                         *)
(* An Addrs value is modelled as a record [fam, elems]: fam is the         *)
(* concrete slice type behind the interface ("tcp", "udp", "ip", "unix"),  *)
(* elems the slice.  The nil interface is Nil.  A slice element is a       *)
(* pointer to an address; it is modelled as [id, ipLen] where id is the    *)
(* identity of the pointer and ipLen is len() of its IP field.  The        *)
(* filters never compare elements, so inputs with pairwise distinct ids    *)
(* are the general case.  Go indexes from 0, the sequences here from 1.    *)
(***************************************************************************)
EXTENDS Integers, Sequences, FiniteSets, TLC

VARIABLES addrs, op, max, filters, target, idx, stages, ret

vars == <<addrs, op, max, filters, target, idx, stages, ret>>

---------------------------------------------------------------------------
(* Bounds of the model *)

MaxLen == 4
MaxNeg == 2
ComposeLen == 2
MaxFilters == 2
MaxTargetLen == 1

(* net.IPv4len, net.IPv6len *)
IPv4len == 4
IPv6len == 16

---------------------------------------------------------------------------
(* Values *)

Families == {"tcp", "udp", "ip", "unix"}

Nil == [fam |-> "nil", elems |-> <<>>]

IsNil(a) == a.fam = "nil"

(* IP lengths an address of a family can report: a unixAddrs element has no
   IP field, the others hold a net.IP of any length (0 stands for every
   length other than 4 and 16). *)
IPLens(fam) == IF fam = "unix" THEN {0} ELSE {0, IPv4len, IPv6len}

(* The collections of family fam with exactly n elements whose pointer
   identities are base+1 .. base+n. *)
CollectionsOfLen(fam, n, base) ==
    { [fam |-> fam, elems |-> [i \in 1..n |-> [id |-> base + i, ipLen |-> f[i]]]] :
        f \in [1..n -> IPLens(fam)] }

Collections(n, base) ==
    UNION { CollectionsOfLen(fam, k, base) : fam \in Families, k \in 0..n }

---------------------------------------------------------------------------
(* type Addrs interface *)

AddrsLen(a) == Len(a.elems)

IP(a, i) == IF a.fam = "unix" THEN 0 ELSE a.elems[i].ipLen

(* fault: the target's slice is used without the type assertion *)
tcpAppendUnchecked(a, t, i) ==
    [fam |-> "tcp", elems |-> Append(t.elems, a.elems[i])]

tcpAppend(a, t, i) ==
    LET s == IF t.fam = "tcp" THEN t.elems ELSE <<>>
    IN  [fam |-> "tcp", elems |-> Append(s, a.elems[i])]

udpAppend(a, t, i) ==
    LET s == IF t.fam = "udp" THEN t.elems ELSE <<>>
    IN  [fam |-> "udp", elems |-> Append(s, a.elems[i])]

ipAppend(a, t, i) ==
    LET s == IF t.fam = "ip" THEN t.elems ELSE <<>>
    IN  [fam |-> "ip", elems |-> Append(s, a.elems[i])]

unixAppend(a, t, i) ==
    LET s == IF t.fam = "unix" THEN t.elems ELSE <<>>
    IN  [fam |-> "unix", elems |-> Append(s, a.elems[i])]

(* addrs.Append(t, i): dynamic dispatch on the receiver's concrete type *)
AddrsAppend(a, t, i) ==
    CASE a.fam = "tcp"  -> tcpAppend(a, t, i)
      [] a.fam = "udp"  -> udpAppend(a, t, i)
      [] a.fam = "ip"   -> ipAppend(a, t, i)
      [] a.fam = "unix" -> unixAppend(a, t, i)

---------------------------------------------------------------------------
(* The filters.  Each for loop is a recursive operator over the loop index. *)

(* ipv6 := -1, shifted by the 1-based indexing *)
NoIndex == 0

RECURSIVE DefaultLoop(_, _, _)
DefaultLoop(a, i, ipv6) ==
    IF i > AddrsLen(a)
    THEN IF ipv6 = NoIndex THEN Nil ELSE AddrsAppend(a, Nil, ipv6)
    ELSE IF IP(a, i) = IPv4len THEN AddrsAppend(a, Nil, i)
    ELSE IF ipv6 = NoIndex /\ IP(a, i) = IPv6len THEN DefaultLoop(a, i + 1, i)
    ELSE DefaultLoop(a, i + 1, ipv6)

(* fault: the scan returns at the first address of either family *)
RECURSIVE DefaultLoopEager(_, _)
DefaultLoopEager(a, i) ==
    IF i > AddrsLen(a) THEN Nil
    ELSE IF IP(a, i) = IPv4len \/ IP(a, i) = IPv6len THEN AddrsAppend(a, Nil, i)
    ELSE DefaultLoopEager(a, i + 1)

DefaultAddrsFilterEager(a) ==
    IF IsNil(a) THEN Nil
    ELSE IF AddrsLen(a) <= 1 THEN a
    ELSE DefaultLoopEager(a, 1)

DefaultAddrsFilter(a) ==
    IF IsNil(a) THEN Nil
    ELSE IF AddrsLen(a) <= 1 THEN a
    ELSE DefaultLoop(a, 1, NoIndex)

NoAddrsFilter(a) == a

(* fault: the last index instead of index 0 *)
FirstAddrsFilterLast(a) ==
    IF IsNil(a) THEN Nil
    ELSE IF AddrsLen(a) <= 1 THEN a
    ELSE AddrsAppend(a, Nil, AddrsLen(a))

FirstAddrsFilter(a) ==
    IF IsNil(a) THEN Nil
    ELSE IF AddrsLen(a) <= 1 THEN a
    ELSE AddrsAppend(a, Nil, 1)

(* fault: the IPv6 branch does not test the ipv6 flag *)
RECURSIVE FirstEachLoopNoFlag(_, _, _, _, _)
FirstEachLoopNoFlag(a, i, ipv4, ipv6, acc) ==
    IF i > AddrsLen(a) THEN acc
    ELSE LET take4 == ~ipv4 /\ IP(a, i) = IPv4len
             take6 == ~take4 /\ IP(a, i) = IPv6len
             acc2  == IF take4 \/ take6 THEN AddrsAppend(a, acc, i) ELSE acc
             v4    == ipv4 \/ take4
             v6    == ipv6 \/ take6
         IN  IF v4 /\ v6 THEN acc2
             ELSE FirstEachLoopNoFlag(a, i + 1, v4, v6, acc2)

RECURSIVE FirstEachLoop(_, _, _, _, _)
FirstEachLoop(a, i, ipv4, ipv6, acc) ==
    IF i > AddrsLen(a) THEN acc
    ELSE LET take4 == ~ipv4 /\ IP(a, i) = IPv4len
             take6 == ~take4 /\ ~ipv6 /\ IP(a, i) = IPv6len
             acc2  == IF take4 \/ take6 THEN AddrsAppend(a, acc, i) ELSE acc
             v4    == ipv4 \/ take4
             v6    == ipv6 \/ take6
         IN  IF v4 /\ v6 THEN acc2
             ELSE FirstEachLoop(a, i + 1, v4, v6, acc2)

FirstEachAddrsFilter(a) ==
    IF IsNil(a) THEN Nil
    ELSE IF AddrsLen(a) <= 1 THEN a
    ELSE FirstEachLoop(a, 1, FALSE, FALSE, Nil)

RECURSIVE FirstIPv4Loop(_, _)
FirstIPv4Loop(a, i) ==
    IF i > AddrsLen(a) THEN Nil
    ELSE IF IP(a, i) = IPv4len THEN AddrsAppend(a, Nil, i)
    ELSE FirstIPv4Loop(a, i + 1)

FirstIPv4AddrsFilter(a) ==
    IF IsNil(a) THEN Nil ELSE FirstIPv4Loop(a, 1)

RECURSIVE FirstIPv6Loop(_, _)
FirstIPv6Loop(a, i) ==
    IF i > AddrsLen(a) THEN Nil
    ELSE IF IP(a, i) = IPv6len THEN AddrsAppend(a, Nil, i)
    ELSE FirstIPv6Loop(a, i + 1)

(* fault: a typed nil slice is returned for nil, a non-nil interface value *)
FirstIPv6AddrsFilterTypedNil(a) ==
    IF IsNil(a) THEN [fam |-> "ip", elems |-> <<>>] ELSE FirstIPv6Loop(a, 1)

FirstIPv6AddrsFilter(a) ==
    IF IsNil(a) THEN Nil ELSE FirstIPv6Loop(a, 1)

RECURSIVE IPv4Loop(_, _, _)
IPv4Loop(a, i, acc) ==
    IF i > AddrsLen(a) THEN acc
    ELSE IF IP(a, i) = IPv4len THEN IPv4Loop(a, i + 1, AddrsAppend(a, acc, i))
    ELSE IPv4Loop(a, i + 1, acc)

IPv4AddrsFilter(a) ==
    IF IsNil(a) THEN Nil ELSE IPv4Loop(a, 1, Nil)

RECURSIVE IPv6Loop(_, _, _)
IPv6Loop(a, i, acc) ==
    IF i > AddrsLen(a) THEN acc
    ELSE IF IP(a, i) = IPv6len THEN IPv6Loop(a, i + 1, AddrsAppend(a, acc, i))
    ELSE IPv6Loop(a, i + 1, acc)

(* fault: the loop starts at the second index *)
IPv6AddrsFilterSkipFirst(a) ==
    IF IsNil(a) THEN Nil ELSE IPv6Loop(a, 2, Nil)

IPv6AddrsFilter(a) ==
    IF IsNil(a) THEN Nil ELSE IPv6Loop(a, 1, Nil)

(* Go's integer division truncates toward zero *)
GoDiv(x, y) == IF x >= 0 THEN x \div y ELSE -((-x) \div y)

(* first loop of the MaxAddrsFilter closure: <<ipv4, ipv6>> counts *)
RECURSIVE MaxCountLoop(_, _, _, _)
MaxCountLoop(a, i, ipv4, ipv6) ==
    IF i > AddrsLen(a) THEN <<ipv4, ipv6>>
    ELSE IF IP(a, i) = IPv4len THEN MaxCountLoop(a, i + 1, ipv4 + 1, ipv6)
    ELSE IF IP(a, i) = IPv6len THEN MaxCountLoop(a, i + 1, ipv4, ipv6 + 1)
    ELSE MaxCountLoop(a, i + 1, ipv4, ipv6)

(* fault: the rounding benefit goes to ipv6 *)
MaxQuotaRoundToIPv6(m, ipv4, ipv6) ==
    LET halfLen == GoDiv(m, 2)
    IN  IF ipv6 <= halfLen THEN <<m - ipv6, ipv6>>
        ELSE IF ipv4 <= halfLen THEN <<ipv4, m - ipv4>>
        ELSE <<halfLen, m - halfLen>>

(* the quotas <<ipv4, ipv6>> computed from the counts *)
MaxQuota(m, ipv4, ipv6) ==
    LET halfLen == GoDiv(m, 2)
    IN  IF ipv6 <= halfLen THEN <<m - ipv6, ipv6>>
        ELSE IF ipv4 <= halfLen THEN <<ipv4, m - ipv4>>
        ELSE <<m - halfLen, halfLen>>

(* fault: the ipv6 quota is not decremented *)
RECURSIVE MaxSelectLoopNoDec(_, _, _, _, _)
MaxSelectLoopNoDec(a, i, ipv4, ipv6, acc) ==
    IF i > AddrsLen(a) THEN acc
    ELSE IF ipv4 > 0 /\ IP(a, i) = IPv4len
         THEN MaxSelectLoopNoDec(a, i + 1, ipv4 - 1, ipv6, AddrsAppend(a, acc, i))
    ELSE IF ipv6 > 0 /\ IP(a, i) = IPv6len
         THEN MaxSelectLoopNoDec(a, i + 1, ipv4, ipv6, AddrsAppend(a, acc, i))
    ELSE MaxSelectLoopNoDec(a, i + 1, ipv4, ipv6, acc)

RECURSIVE MaxSelectLoop(_, _, _, _, _)
MaxSelectLoop(a, i, ipv4, ipv6, acc) ==
    IF i > AddrsLen(a) THEN acc
    ELSE IF ipv4 > 0 /\ IP(a, i) = IPv4len
         THEN MaxSelectLoop(a, i + 1, ipv4 - 1, ipv6, AddrsAppend(a, acc, i))
    ELSE IF ipv6 > 0 /\ IP(a, i) = IPv6len
         THEN MaxSelectLoop(a, i + 1, ipv4, ipv6 - 1, AddrsAppend(a, acc, i))
    ELSE MaxSelectLoop(a, i + 1, ipv4, ipv6, acc)

(* MaxAddrsFilter(m)(a) *)
MaxAddrsFilter(m, a) ==
    IF IsNil(a) THEN Nil
    ELSE IF AddrsLen(a) <= m THEN a
    ELSE LET n == MaxCountLoop(a, 1, 0, 0)
             q == MaxQuota(m, n[1], n[2])
         IN  MaxSelectLoop(a, 1, q[1], q[2], Nil)

RECURSIVE ReverseLoop(_, _, _)
ReverseLoop(a, i, acc) ==
    IF i < 1 THEN acc
    ELSE ReverseLoop(a, i - 1, AddrsAppend(a, acc, i))

(* fault: the result is accumulated onto addrs instead of nil *)
ReverseAddrsFilterOnto(a) ==
    IF IsNil(a) THEN Nil
    ELSE IF AddrsLen(a) <= 1 THEN a
    ELSE ReverseLoop(a, AddrsLen(a), a)

ReverseAddrsFilter(a) ==
    IF IsNil(a) THEN Nil
    ELSE IF AddrsLen(a) <= 1 THEN a
    ELSE ReverseLoop(a, AddrsLen(a), Nil)

(* rand.Perm(n): any permutation of the n indexes *)
RandPerm(n) ==
    { p \in [1..n -> 1..n] : \A i, j \in 1..n : p[i] = p[j] => i = j }

RECURSIVE ShuffleLoop(_, _, _, _)
ShuffleLoop(a, perm, k, acc) ==
    IF k > Len(perm) THEN acc
    ELSE ShuffleLoop(a, perm, k + 1, AddrsAppend(a, acc, perm[k]))

(* fault: each index is drawn independently instead of from rand.Perm *)
ShuffleAddrsFilterIntn(a) ==
    IF IsNil(a) THEN {Nil}
    ELSE IF AddrsLen(a) <= 1 THEN {a}
    ELSE { ShuffleLoop(a, perm, 1, Nil) :
             perm \in [1..AddrsLen(a) -> 1..AddrsLen(a)] }

(* the results ShuffleAddrsFilter(a) can return, one per value of rand.Perm *)
ShuffleAddrsFilter(a) ==
    IF IsNil(a) THEN {Nil}
    ELSE IF AddrsLen(a) <= 1 THEN {a}
    ELSE { ShuffleLoop(a, perm, 1, Nil) : perm \in RandPerm(AddrsLen(a)) }

---------------------------------------------------------------------------
(* ComposeAddrsFilters.  A filter value is named by [name, max]; max is the
   argument of MaxAddrsFilter and 0 for the other filters. *)

F(name) == [name |-> name, max |-> 0]

FMax(m) == [name |-> "Max", max |-> m]

(* filter(addrs): the set of values the call can return *)
Call(f, a) ==
    CASE f.name = "Default"   -> {DefaultAddrsFilter(a)}
      [] f.name = "No"        -> {NoAddrsFilter(a)}
      [] f.name = "First"     -> {FirstAddrsFilter(a)}
      [] f.name = "FirstEach" -> {FirstEachAddrsFilter(a)}
      [] f.name = "FirstIPv4" -> {FirstIPv4AddrsFilter(a)}
      [] f.name = "FirstIPv6" -> {FirstIPv6AddrsFilter(a)}
      [] f.name = "IPv4"      -> {IPv4AddrsFilter(a)}
      [] f.name = "IPv6"      -> {IPv6AddrsFilter(a)}
      [] f.name = "Max"       -> {MaxAddrsFilter(f.max, a)}
      [] f.name = "Reverse"   -> {ReverseAddrsFilter(a)}
      [] f.name = "Shuffle"   -> ShuffleAddrsFilter(a)

(* the for loop of the composed filter: run is the sequence of the values
   assigned to addrs so far, one per filter called *)
RECURSIVE ComposeLoop(_, _, _, _)
ComposeLoop(fs, k, a, run) ==
    IF k > Len(fs) THEN {run}
    ELSE UNION { ComposeLoop(fs, k + 1, r, Append(run, r)) : r \in Call(fs[k], a) }

(* ComposeAddrsFilters(fs...)(a): the runs it can make *)
ComposeAddrsFilters(fs, a) == ComposeLoop(fs, 1, a, <<>>)

---------------------------------------------------------------------------
(* The state: one resolution-to-dial cycle.  addrs is the collection the
   resolver produced; one call is made on it.  op names the function called,
   max / filters / target, idx are its other arguments, ret is the value
   returned, stages the values a composed filter assigned to addrs, one per
   filter it called. *)

Inputs == Collections(MaxLen, 0) \cup {Nil}

ComposeInputs == Collections(ComposeLen, 0) \cup {Nil}

MaxValues(n) == (0 - MaxNeg) .. n

FilterNames ==
    {"Default", "No", "First", "FirstEach", "FirstIPv4", "FirstIPv6",
     "IPv4", "IPv6", "Reverse", "Shuffle"}

FilterValues(n) == {F(name) : name \in FilterNames} \cup {FMax(m) : m \in MaxValues(n)}

(* every argument list of at most MaxFilters filters *)
FilterSeqs(n) == UNION { [1..k -> FilterValues(n)] : k \in 0..MaxFilters }

(* the two compositions of the documentation of ComposeAddrsFilters, and
   each filter composed with itself *)
Chains ==
    {<<F("Shuffle"), F("FirstEach")>>, <<F("IPv4"), F("First")>>}
        \cup { <<f, f>> : f \in FilterValues(MaxLen) \ {F("Shuffle")} }

(* targets handed to Append: nil or a collection of any family, its
   elements distinct from the receiver's *)
Targets == Collections(MaxTargetLen, MaxLen + 1) \cup {Nil}

NoCall ==
    /\ op = "none"
    /\ max = 0
    /\ filters = <<>>
    /\ target = Nil
    /\ idx = 0
    /\ stages = <<>>
    /\ ret = Nil

Init == addrs \in Inputs /\ NoCall

InitCompose == addrs \in ComposeInputs /\ NoCall

Returns(name, m, r) ==
    /\ op = "none"
    /\ op' = name
    /\ max' = m
    /\ ret' = r
    /\ filters' = <<>>
    /\ target' = Nil
    /\ idx' = 0
    /\ stages' = <<>>
    /\ UNCHANGED addrs

Default == Returns("Default", 0, DefaultAddrsFilter(addrs))

No == Returns("No", 0, NoAddrsFilter(addrs))

First == Returns("First", 0, FirstAddrsFilter(addrs))

FirstEach == Returns("FirstEach", 0, FirstEachAddrsFilter(addrs))

FirstIPv4 == Returns("FirstIPv4", 0, FirstIPv4AddrsFilter(addrs))

FirstIPv6 == Returns("FirstIPv6", 0, FirstIPv6AddrsFilter(addrs))

IPv4 == Returns("IPv4", 0, IPv4AddrsFilter(addrs))

IPv6 == Returns("IPv6", 0, IPv6AddrsFilter(addrs))

Max ==
    /\ op = "none"
    /\ \E m \in MaxValues(MaxLen) : Returns("Max", m, MaxAddrsFilter(m, addrs))

Reverse == Returns("Reverse", 0, ReverseAddrsFilter(addrs))

Shuffle ==
    /\ op = "none"
    /\ \E r \in ShuffleAddrsFilter(addrs) : Returns("Shuffle", 0, r)

AppendCall ==
    /\ op = "none"
    /\ ~IsNil(addrs)
    /\ \E t \in Targets, i \in 1..AddrsLen(addrs) :
        /\ op' = "Append"
        /\ target' = t
        /\ idx' = i
        /\ ret' = AddrsAppend(addrs, t, i)
        /\ max' = 0
        /\ filters' = <<>>
        /\ stages' = <<>>
        /\ UNCHANGED addrs

(* ComposeAddrsFilters(fs...)(addrs) for an argument list fs of fss *)
ComposeCall(fss) ==
    /\ op = "none"
    /\ \E fs \in fss :
        \E run \in ComposeAddrsFilters(fs, addrs) :
            /\ op' = "Compose"
            /\ filters' = fs
            /\ stages' = run
            /\ ret' = IF run = <<>> THEN addrs ELSE run[Len(run)]
            /\ max' = 0
            /\ target' = Nil
            /\ idx' = 0
            /\ UNCHANGED addrs

ComposeChain == ComposeCall(Chains)

Compose == ComposeCall(FilterSeqs(ComposeLen))

Next ==
    \/ Default
    \/ No
    \/ First
    \/ FirstEach
    \/ FirstIPv4
    \/ FirstIPv6
    \/ IPv4
    \/ IPv6
    \/ Max
    \/ Reverse
    \/ Shuffle
    \/ AppendCall
    \/ ComposeChain

Spec == Init /\ [][Next]_vars

NextCompose == Compose

SpecCompose == InitCompose /\ [][NextCompose]_vars

---------------------------------------------------------------------------
(* Vocabulary of the properties *)

Elems(a) == a.elems

Length(a) == Len(a.elems)

Idx(a) == 1..Len(a.elems)

V4(a) == { i \in Idx(a) : IP(a, i) = IPv4len }

V6(a) == { i \in Idx(a) : IP(a, i) = IPv6len }

N4(a) == Cardinality(V4(a))

N6(a) == Cardinality(V6(a))

Lowest(S) == CHOOSE x \in S : \A y \in S : x <= y

Least(x, y) == IF x <= y THEN x ELSE y

(* the elements of a at the indexes of S, in index order *)
RECURSIVE ElemsAt(_, _)
ElemsAt(a, S) ==
    IF S = {} THEN <<>>
    ELSE <<a.elems[Lowest(S)]>> \o ElemsAt(a, S \ {Lowest(S)})

(* the collection of a's family holding the elements of a at the indexes of
   S, absent when S is empty *)
Selected(a, S) == IF S = {} THEN Nil ELSE [fam |-> a.fam, elems |-> ElemsAt(a, S)]

(* the lowest k indexes of S (all of S when it has fewer) *)
FirstOf(S, k) == { i \in S : Cardinality({ j \in S : j < i }) < k }

(* the IPv4/IPv6 split of the capped filter as specified *)
Split(m, n4, n6) ==
    LET half == GoDiv(m, 2)
    IN  IF n6 <= half THEN <<m - n6, n6>>
        ELSE IF n4 <= half THEN <<n4, m - n4>>
        ELSE <<m - half, half>>

SameSeq(a, b) == IsNil(a) = IsNil(b) /\ Elems(a) = Elems(b)

(* the value a composed filter passed to its k-th filter *)
StageIn(k) == IF k = 1 THEN addrs ELSE stages[k - 1]

---------------------------------------------------------------------------
(* C1 as stated: for every integer max, when max < n4+n6 the filter of
   MaxAddrsFilter(max) returns exactly min(max, n4+n6) addresses, split
   between IPv4 and IPv6 as Split(max, n4, n6). *)
C1_MaxSplitAnyMax ==
    (op = "Max" /\ ~IsNil(addrs) /\ max < N4(addrs) + N6(addrs)) =>
        /\ Length(ret) = Least(max, N4(addrs) + N6(addrs))
        /\ <<N4(ret), N6(ret)>> = Split(max, N4(addrs), N6(addrs))

(* C1 amended: for every max >= 0, when max < n4+n6 the filter of
   MaxAddrsFilter(max) returns exactly min(max, n4+n6) addresses, split
   between IPv4 and IPv6 as Split(max, n4, n6). *)
C1_MaxSplit ==
    (op = "Max" /\ ~IsNil(addrs) /\ max >= 0 /\ max < N4(addrs) + N6(addrs)) =>
        /\ Length(ret) = Least(max, N4(addrs) + N6(addrs))
        /\ <<N4(ret), N6(ret)>> = Split(max, N4(addrs), N6(addrs))

(* an odd max with both families above half: the remainder goes to IPv4 *)
C1_Witness ==
    /\ op = "Max"
    /\ max = 3
    /\ N4(addrs) = 2
    /\ N6(addrs) = 2
    /\ <<N4(ret), N6(ret)>> = <<2, 1>>

(* C2: DefaultAddrsFilter returns a collection of length 0 or 1 unchanged;
   on a longer one it returns the lowest-index IPv4 address alone, else the
   lowest-index IPv6 address alone, else nil. *)
C2_Default ==
    (op = "Default" /\ ~IsNil(addrs)) =>
        IF Length(addrs) <= 1 THEN ret = addrs
        ELSE IF V4(addrs) # {} THEN ret = Selected(addrs, {Lowest(V4(addrs))})
        ELSE IF V6(addrs) # {} THEN ret = Selected(addrs, {Lowest(V6(addrs))})
        ELSE ret = Nil

(* the IPv4 address is chosen although two IPv6 addresses precede it *)
C2_Witness ==
    /\ op = "Default"
    /\ Length(addrs) = 4
    /\ V6(addrs) = {1, 2}
    /\ V4(addrs) = {4}
    /\ ret = Selected(addrs, {4})

(* C3 as stated: Append with a non-nil target of another family returns a
   collection in which element i of the receiver does not appear. *)
C3_AppendDropsElement ==
    (op = "Append" /\ ~IsNil(target) /\ target.fam # addrs.fam) =>
        \A k \in Idx(ret) : ret.elems[k] # addrs.elems[idx]

(* C3 amended: Append with a non-nil target of another family drops the
   target: it returns a collection of the receiver's family holding element
   i of the receiver and nothing else. *)
C3_AppendDropsTarget ==
    (op = "Append" /\ ~IsNil(target) /\ target.fam # addrs.fam) =>
        ret = [fam |-> addrs.fam, elems |-> <<addrs.elems[idx]>>]

(* a non-empty target of another family *)
C3_Witness ==
    /\ op = "Append"
    /\ addrs.fam = "tcp"
    /\ target.fam = "udp"
    /\ Length(target) = 1
    /\ idx = 2
    /\ Length(ret) = 1

(* C4: ComposeAddrsFilters(IPv4AddrsFilter, FirstAddrsFilter) returns what
   FirstIPv4AddrsFilter returns: nil in the same cases, else the same
   element sequence. *)
C4_ComposeIPv4First ==
    (op = "Compose" /\ filters = <<F("IPv4"), F("First")>>) =>
        SameSeq(ret, FirstIPv4AddrsFilter(addrs))

(* several IPv4 addresses, the first of them not at the front *)
C4_Witness ==
    /\ op = "Compose"
    /\ filters = <<F("IPv4"), F("First")>>
    /\ V4(addrs) = {2, 4}
    /\ Length(stages[1]) = 2
    /\ ret = Selected(addrs, {2})

(* C5: when the filter of MaxAddrsFilter(max) truncates, it returns, in
   input order, exactly the first k4 IPv4 and the first k6 IPv6 addresses of
   the input, k4 and k6 being the quotas. *)
C5_MaxFrontPreferred ==
    (op = "Max" /\ ~IsNil(addrs) /\ Length(addrs) > max) =>
        LET q == Split(max, N4(addrs), N6(addrs))
        IN  SameSeq(ret, Selected(addrs, FirstOf(V4(addrs), q[1])
                                            \cup FirstOf(V6(addrs), q[2])))

(* an unselected IPv4 address lies between two selected addresses *)
C5_Witness ==
    /\ op = "Max"
    /\ max = 2
    /\ V4(addrs) = {1, 2}
    /\ V6(addrs) = {3, 4}
    /\ ret = Selected(addrs, {1, 3})

(* C6: FirstEachAddrsFilter returns a collection of length 0 or 1
   unchanged; on a longer one it returns the lowest-index IPv4 and the
   lowest-index IPv6 address, in input order, nil if there is neither. *)
C6_FirstEach ==
    (op = "FirstEach" /\ ~IsNil(addrs)) =>
        IF Length(addrs) <= 1 THEN ret = addrs
        ELSE ret = Selected(addrs,
                 (IF V4(addrs) # {} THEN {Lowest(V4(addrs))} ELSE {})
                     \cup (IF V6(addrs) # {} THEN {Lowest(V6(addrs))} ELSE {}))

(* IPv6 met first, a second IPv6 skipped, then the IPv4 *)
C6_Witness ==
    /\ op = "FirstEach"
    /\ V6(addrs) = {2, 3}
    /\ V4(addrs) = {4}
    /\ ret = Selected(addrs, {2, 4})

(* C7: every filter called with nil returns nil, so a composed filter
   returns nil on nil and as soon as one of its filters returned nil. *)
C7_NilPassesThrough ==
    (op = "Compose") =>
        /\ \A k \in 1..Len(filters) : IsNil(StageIn(k)) => IsNil(stages[k])
        /\ IsNil(addrs) => IsNil(ret)
        /\ (\E k \in 1..Len(stages) : IsNil(stages[k])) => IsNil(ret)

(* the first filter returns nil on a collection, the second is handed nil *)
C7_Witness ==
    /\ op = "Compose"
    /\ ~IsNil(addrs)
    /\ Len(filters) = 2
    /\ filters[2].name = "Reverse"
    /\ IsNil(stages[1])
    /\ IsNil(ret)

(* C8: ShuffleAddrsFilter returns a collection of length 0 or 1 itself, and
   of a longer one a collection of the same length with the same multiset
   of elements. *)
C8_ShufflePermutes ==
    (op = "Shuffle" /\ ~IsNil(addrs)) =>
        IF Length(addrs) <= 1 THEN ret = addrs
        ELSE /\ Length(ret) = Length(addrs)
             /\ \A i \in Idx(addrs) :
                    Cardinality({ k \in Idx(ret) : ret.elems[k] = addrs.elems[i] })
                        = Cardinality({ j \in Idx(addrs) : addrs.elems[j] = addrs.elems[i] })

(* a permutation that moves every element *)
C8_Witness ==
    /\ op = "Shuffle"
    /\ Length(addrs) = 3
    /\ Elems(ret) = <<addrs.elems[3], addrs.elems[1], addrs.elems[2]>>

(* C9: no filter returns more addresses than it was given (nil counting as
   none), and neither does a composed filter. *)
C9_LengthBound ==
    (op = "Compose") =>
        /\ \A k \in 1..Len(filters) : Length(stages[k]) <= Length(StageIn(k))
        /\ Length(ret) <= Length(addrs)

(* a capped filter shortens the collection and the next one shortens it again *)
C9_Witness ==
    /\ op = "Compose"
    /\ Len(filters) = 2
    /\ filters[1] = F("Reverse")
    /\ filters[2] = FMax(1)
    /\ Length(addrs) = 2
    /\ Length(ret) = 1

(* C10: each deterministic selection filter, MaxAddrsFilter(max) with
   max >= 0 included, applied to its own result returns nil exactly when
   that result is nil and else the same element sequence. *)
C10_Idempotent ==
    (/\ op = "Compose"
     /\ Len(filters) = 2
     /\ filters[1] = filters[2]
     /\ filters[1].name \in {"Default", "First", "FirstEach", "FirstIPv4",
                              "FirstIPv6", "IPv4", "IPv6", "Max"}
     /\ filters[1].max >= 0) =>
        SameSeq(stages[2], stages[1])

(* a capped filter run again on its own two-address result *)
C10_Witness ==
    /\ op = "Compose"
    /\ filters = <<FMax(2), FMax(2)>>
    /\ Length(addrs) = 4
    /\ V4(stages[1]) = {1}
    /\ V6(stages[1]) = {2}
    /\ stages[2] = stages[1]

====
